---- MODULE Spec2Model ----
(***************************************************************************)
(* SmartPantry backend: the authentication layer.                          *)
(*                                                                         *)
(*   app/core/auth.py      local authenticator (python-jose, HS256)        *)
(*   app/core/auth_b2c.py  federated verifier (PyJWT, RS256, cached JWKS)  *)
(*   app/models/user.py    the pydantic User model both of them build      *)
(*   app/api/auth.py       register, login, refresh, logout, me            *)
(*   app/api/users.py      the profile handlers                            *)
(*                                                                         *)
(* Wall-clock time is counted in ticks, TicksPerSecond ticks to a second,  *)
(* because both JWT libraries compare the exp claim in whole seconds       *)
(* while datetime.utcnow() and timedelta have sub-second resolution.       *)
(***************************************************************************)
EXTENDS Integers, Sequences, FiniteSets, TLC

TicksPerSecond == 2
MaxTime == 6
MaxTtl == 3

\* Settings.access_token_expire_minutes
access_token_expire_minutes == 30

\* Settings.secret_key / a key the process does not hold
secret_key == "your-secret-key-here"
OtherKey == "some-other-key"

\* Python's None: the value of dict.get for a missing key
None == "<None>"

\* AzureADB2CAuth._jwks: None after __init__, or the key set that was fetched
NoJwks == [loaded |-> FALSE, keys |-> {}]
Jwks(ks) == [loaded |-> TRUE, keys |-> ks]

VARIABLES
    now,      \* datetime.utcnow(), in ticks
    issued,   \* the token create_access_token returned last, with its issuance
    last,     \* the outcome of the last verification or request
    jwks,     \* AzureADB2CAuth._jwks: the cached key set
    endpoint, \* the discovery endpoint: whether it answers, and the keys it serves
    fetches,  \* number of requests.get(jwks_url) calls made so far
    pending,  \* federated requests received and not yet authenticated
    mapped,   \* the payload get_user_from_token was applied to, with its outcome
    store     \* the user documents of the Cosmos container

vars == <<now, issued, last, jwks, endpoint, fetches, pending, mapped, store>>

NoOp == [op |-> "none"]

(***************************************************************************)
(* Outcomes of a call: a returned value or a raised exception.            *)
(***************************************************************************)
RetNone == [kind |-> "none"]
RetPayload(p) == [kind |-> "payload", payload |-> p]
RetUser(u) == [kind |-> "user", user |-> u]
Raise(exc, status, detail) ==
    [kind |-> "raise", exc |-> exc, status |-> status, detail |-> detail]

(***************************************************************************)
(* app/models/user.py                                                      *)
(***************************************************************************)
\* EmailStr: a local part, an @ and a domain; the empty string is no address.
EmailStrOk(e) == e # None /\ e # ""

\* name: str = Field(..., min_length=1, max_length=100)
NameOk(n) == n # None /\ n # ""

\* User(**kw): every field without a default is required; unknown keyword
\* arguments are ignored; a failed validation raises ValidationError.
UserFieldsRequired == {"id", "email", "name", "created_at", "updated_at"}

UserInit(kw) ==
    IF /\ UserFieldsRequired \subseteq DOMAIN kw
       /\ kw.id # None
       /\ EmailStrOk(kw.email)
       /\ NameOk(kw.name)
    THEN RetUser([id |-> kw.id, email |-> kw.email, name |-> kw.name,
                  household_id |-> IF "household_id" \in DOMAIN kw
                                   THEN kw.household_id ELSE None])
    ELSE Raise("ValidationError", 0, "validation error for User")

(***************************************************************************)
(* python-jose, as app/core/auth.py uses it.  A token is what jwt.encode   *)
(* built (a signing key and a claim set) or a string that is no JWT.       *)
(***************************************************************************)
Garbage == [fmt |-> "garbage"]

\* jwt.encode: a datetime exp becomes timegm(exp.utctimetuple()), whole seconds
JoseEncode(claims, expire, key) ==
    [fmt |-> "jwt", key |-> key, claims |-> claims,
     hasExp |-> TRUE, exp |-> expire \div TicksPerSecond]

\* JoseDecode with the signature check left out (verify_signature = False)
JoseDecodeNoSig(token, key, t) ==
    IF token.fmt # "jwt" THEN Raise("JWTError", 0, "Not enough segments")
    ELSE IF token.hasExp /\ token.exp < t \div TicksPerSecond
         THEN Raise("ExpiredSignatureError", 0, "Signature has expired.")
    ELSE RetPayload(token.claims)

\* JoseDecode with the expiry check left out (options verify_exp = False)
JoseDecodeNoExp(token, key, t) ==
    IF token.fmt # "jwt" THEN Raise("JWTError", 0, "Not enough segments")
    ELSE IF token.key # key
         THEN Raise("JWTError", 0, "Signature verification failed.")
    ELSE RetPayload(token.claims)

\* jwt.decode(token, key, algorithms=[alg]): the signature, then the claims;
\* _validate_exp raises when exp < timegm(utcnow().utctimetuple()).
JoseDecode(token, key, t) ==
    IF token.fmt # "jwt" THEN Raise("JWTError", 0, "Not enough segments")
    ELSE IF token.key # key
         THEN Raise("JWTError", 0, "Signature verification failed.")
    ELSE IF token.hasExp /\ token.exp < t \div TicksPerSecond
         THEN Raise("ExpiredSignatureError", 0, "Signature has expired.")
    ELSE RetPayload(token.claims)

\* ExpiredSignatureError and JWTClaimsError derive from JWTError
IsJWTError(exc) == exc \in {"JWTError", "ExpiredSignatureError", "JWTClaimsError"}

(***************************************************************************)
(* app/core/auth.py                                                        *)
(***************************************************************************)
NoDelta == [given |-> FALSE, ticks |-> 0]
Delta(n) == [given |-> TRUE, ticks |-> n]

\* create_access_token without its expires_delta branch
create_access_token_default_only(data, expires_delta, t) ==
    JoseEncode(data, t + access_token_expire_minutes * 60 * TicksPerSecond,
               secret_key)

\* `if expires_delta:` is false for None and for timedelta(0)
create_access_token(data, expires_delta, t) ==
    LET expire == IF expires_delta.given /\ expires_delta.ticks # 0
                  THEN t + expires_delta.ticks
                  ELSE t + access_token_expire_minutes * 60 * TicksPerSecond
    IN JoseEncode(data, expire, secret_key)

\* verify_token catching ExpiredSignatureError alone instead of JWTError
verify_token_expired_only(token, t) ==
    LET d == JoseDecode(token, secret_key, t)
    IN IF d.kind = "raise"
       THEN IF d.exc = "ExpiredSignatureError" THEN RetNone ELSE d
       ELSE d

\* verify_token refusing every token once logout has been called
verify_token_revoked_by_logout(token, t) ==
    IF last.op = "logout" THEN RetNone
    ELSE LET d == JoseDecode(token, secret_key, t)
         IN IF d.kind = "raise"
            THEN IF IsJWTError(d.exc) THEN RetNone ELSE d
            ELSE d

verify_token(token, t) ==
    LET d == JoseDecode(token, secret_key, t)
    IN IF d.kind = "raise"
       THEN IF IsJWTError(d.exc) THEN RetNone ELSE d
       ELSE d

credentials_exception ==
    Raise("HTTPException", 401, "Could not validate credentials")

\* get_current_user reading the claims without verifying the token and
\* building the user without validation
get_current_user_unverified(token, t) ==
    IF token.fmt # "jwt" \/ token.claims.sub = None THEN credentials_exception
    ELSE RetUser([id |-> token.claims.sub, email |-> token.claims.email,
                  name |-> token.claims.name,
                  household_id |-> token.claims.household_id])

\* `except Exception` also catches the HTTPException raised inside the try
\* and the ValidationError of User(...): all leave as credentials_exception.
get_current_user(token, t) ==
    LET payload == verify_token(token, t)
    IN IF payload.kind # "payload" THEN credentials_exception
       ELSE IF payload.payload.sub = None THEN credentials_exception
       ELSE LET user == UserInit(
                    [id |-> payload.payload.sub,
                     email |-> IF payload.payload.email = None
                               THEN "" ELSE payload.payload.email,
                     name |-> IF payload.payload.name = None
                              THEN "" ELSE payload.payload.name,
                     household_id |-> payload.payload.household_id])
            IN IF user.kind = "raise" THEN credentials_exception ELSE user

(***************************************************************************)
(* fastapi.security.HTTPBearer() with auto_error left at its default.      *)
(* A missing header or another scheme raises HTTPException before the      *)
(* dependant runs; the status is 403 in the older releases of the          *)
(* framework and 401 in the newer ones, so it is left open here.           *)
(***************************************************************************)
NoHeader == [scheme |-> None, credentials |-> Garbage]
Bearer(token) == [scheme |-> "Bearer", credentials |-> token]
Basic(token) == [scheme |-> "Basic", credentials |-> token]

HTTPBearerRejectStatus == {401, 403}

security(header, st) ==
    IF header.scheme = None
    THEN Raise("HTTPException", st, "Not authenticated")
    ELSE IF header.scheme # "Bearer"
    THEN Raise("HTTPException", st, "Invalid authentication credentials")
    ELSE [kind |-> "credentials", credentials |-> header.credentials]

(***************************************************************************)
(* Inputs                                                                  *)
(***************************************************************************)
ClaimSets ==
    { [sub |-> "u1", email |-> "ann@x.com", name |-> "Ann", household_id |-> None],
      [sub |-> "u1", email |-> "ann@x.com", name |-> "Ann", household_id |-> "h1"],
      [sub |-> None, email |-> "ann@x.com", name |-> "Ann", household_id |-> None] }

Deltas == {NoDelta} \cup {Delta(n) : n \in 0..MaxTtl}

\* strings a client can present without the server having issued them
ForgedTokens ==
    { Garbage,
      [fmt |-> "jwt", key |-> OtherKey, hasExp |-> FALSE, exp |-> 0,
       claims |-> [sub |-> "u1", email |-> "ann@x.com", name |-> "Ann",
                   household_id |-> None]],
      [fmt |-> "jwt", key |-> OtherKey, hasExp |-> TRUE, exp |-> MaxTime,
       claims |-> [sub |-> "u1", email |-> "ann@x.com", name |-> "Ann",
                   household_id |-> "h1"]] }

\* every string verify_token can be handed: the above, and JWTs carrying a
\* valid signature (with or without an exp claim)
SignedTokens ==
    { [fmt |-> "jwt", key |-> secret_key, hasExp |-> FALSE, exp |-> 0,
       claims |-> c] : c \in ClaimSets }

PresentableTokens ==
    ForgedTokens \cup SignedTokens
        \cup (IF issued.op = "issue" THEN {issued.token} ELSE {})

Headers ==
    {NoHeader} \cup {Bearer(t) : t \in PresentableTokens}
        \cup {Basic(t) : t \in {Garbage}}

(***************************************************************************)
(* Actions of the local authenticator                                      *)
(***************************************************************************)
FederatedUnchanged ==
    UNCHANGED <<jwks, endpoint, fetches, pending, mapped, store>>

Tick ==
    /\ now < MaxTime
    /\ now' = now + 1
    /\ UNCHANGED <<issued, last>>
    /\ FederatedUnchanged

\* login, register and refresh_token call create_access_token
Issue ==
    \E data \in ClaimSets, d \in Deltas :
        /\ issued' = [op |-> "issue", token |-> create_access_token(data, d, now),
                      iat |-> now, delta |-> d, data |-> data]
        /\ last' = NoOp
        /\ UNCHANGED now
        /\ FederatedUnchanged

Verify ==
    \E token \in PresentableTokens :
        /\ last' = [op |-> "verify", token |-> token, at |-> now,
                    result |-> verify_token(token, now)]
        /\ UNCHANGED <<now, issued>>
        /\ FederatedUnchanged

\* A request to an endpoint that declares Depends(get_current_user), such as
\* get_food_item: the bearer scheme, the authenticator, then the handler body
\* with its one document-store call.
Handle(header, st, t) ==
    LET cred == security(header, st)
        dep == IF cred.kind = "raise" THEN cred
               ELSE get_current_user(cred.credentials, t)
    IN IF dep.kind = "raise"
       THEN [op |-> "request", header |-> header, at |-> t,
             status |-> dep.status, detail |-> dep.detail,
             handlerRan |-> FALSE, storeOps |-> 0, user |-> dep]
       ELSE [op |-> "request", header |-> header, at |-> t,
             status |-> 200, detail |-> "",
             handlerRan |-> TRUE, storeOps |-> 1, user |-> dep]

Request ==
    \E header \in Headers, st \in HTTPBearerRejectStatus :
        /\ last' = Handle(header, st, now)
        /\ UNCHANGED <<now, issued>>
        /\ FederatedUnchanged

InitLocal ==
    /\ now = 0
    /\ issued = NoOp
    /\ last = NoOp
    /\ jwks = NoJwks
    /\ endpoint = [up |-> TRUE, keys |-> {}]
    /\ fetches = 0
    /\ pending = {}
    /\ mapped = NoOp
    /\ store = {}

NextLocal == Tick \/ Issue \/ Verify \/ Request

SpecLocal == InitLocal /\ [][NextLocal]_vars

(***************************************************************************)
(* app/core/auth_b2c.py: the federated verifier.                           *)
(*                                                                         *)
(* A federated token is a JWT with a key identifier in its header, signed  *)
(* by the private half of some key, or a string that is no JWT.            *)
(***************************************************************************)
NReq == 2
MaxB2CTime == 3

\* settings.azure_b2c_client_id and AzureADB2CAuth.issuer
client_id == "your-b2c-client-id"
issuer == "https://your-b2c-tenant-name.b2clogin.com/.../v2.0/"

\* get_jwks without its `if self._jwks is None` test: every call requests
\* the key set
get_jwks_uncached(cache, ep) ==
    IF ep.up
    THEN [kind |-> "jwks", keys |-> ep.keys,
          cache |-> Jwks(ep.keys), requests |-> 1]
    ELSE [kind |-> "raise", exc |-> "HTTPException", status |-> 500,
          detail |-> "Authentication service unavailable",
          cache |-> cache, requests |-> 1]

\* AzureADB2CAuth.get_jwks, run to completion: the cached key set, or one
\* requests.get to the discovery endpoint whose answer is cached; a failed
\* request raises HTTPException(500) and caches nothing.
get_jwks(cache, ep) ==
    IF cache = NoJwks
    THEN IF ep.up
         THEN [kind |-> "jwks", keys |-> ep.keys,
               cache |-> Jwks(ep.keys), requests |-> 1]
         ELSE [kind |-> "raise", exc |-> "HTTPException", status |-> 500,
               detail |-> "Authentication service unavailable",
               cache |-> NoJwks, requests |-> 1]
    ELSE [kind |-> "jwks", keys |-> cache.keys, cache |-> cache, requests |-> 0]

\* the call as it would be with get_jwks awaited: its body runs
CallGetJwksAwaited(cache, ep) == get_jwks(cache, ep)

\* `self.get_jwks()` in the synchronous verify_token: get_jwks is declared
\* `async def`, so the call only builds a coroutine object; its body does not
\* run, nothing is requested and nothing is cached.
CallGetJwks(cache, ep) ==
    [kind |-> "coroutine", cache |-> cache, requests |-> 0]

\* get_unverified_header answering an empty header instead of raising
GetUnverifiedHeaderLenient(token) ==
    IF token.fmt # "jwt" THEN [kind |-> "header", kid |-> None]
    ELSE [kind |-> "header", kid |-> token.kid]

\* jwt.get_unverified_header: DecodeError (an InvalidTokenError) for a string
\* that is no JWT
GetUnverifiedHeader(token) ==
    IF token.fmt # "jwt" THEN Raise("InvalidTokenError", 0, "Not enough segments")
    ELSE [kind |-> "header", kid |-> token.kid]

\* the loop over jwks.get('keys', []): a coroutine object has no attribute get
FindKey(j, kid) ==
    IF j.kind = "coroutine"
    THEN Raise("AttributeError", 0, "'coroutine' object has no attribute 'get'")
    ELSE IF kid \in j.keys THEN [kind |-> "key", key |-> kid]
    ELSE [kind |-> "key", key |-> None]

\* PyJWT jwt.decode with verify_signature, verify_exp, verify_aud and
\* verify_iss: the signature first, then exp (expired when exp <= now), then
\* the audience, then the issuer.
PyJwtDecode(token, key, audience, iss, t) ==
    IF token.sig # key
    THEN Raise("InvalidTokenError", 0, "Signature verification failed")
    ELSE IF token.exp * TicksPerSecond <= t
    THEN Raise("ExpiredSignatureError", 0, "Signature has expired")
    ELSE IF token.aud # audience
    THEN Raise("InvalidTokenError", 0, "Audience doesn't match")
    ELSE IF token.iss # iss
    THEN Raise("InvalidTokenError", 0, "Invalid issuer")
    ELSE RetPayload(token.claims)

\* the except clauses with the last one re-raising what it caught
B2CExceptReraise(e) ==
    IF e.exc = "ExpiredSignatureError"
    THEN Raise("HTTPException", 401, "Token has expired")
    ELSE IF e.exc = "InvalidTokenError"
    THEN Raise("HTTPException", 401, "Invalid token")
    ELSE e

\* the except clauses of verify_token, in their order; the HTTPException
\* raised in the try for a key that was not found falls to the last one
B2CExcept(e) ==
    IF e.exc = "ExpiredSignatureError"
    THEN Raise("HTTPException", 401, "Token has expired")
    ELSE IF e.exc = "InvalidTokenError"
    THEN Raise("HTTPException", 401, "Invalid token")
    ELSE Raise("HTTPException", 401, "Token verification failed")

\* verify_token whose last except clause falls back to the unverified claims
b2c_verify_token_fallback(token, cache, ep, t) ==
    LET hdr == GetUnverifiedHeader(token)
    IN IF hdr.kind = "raise"
       THEN [out |-> B2CExcept(hdr), cache |-> cache, requests |-> 0]
       ELSE [out |-> RetPayload(token.claims), cache |-> cache, requests |-> 0]

\* AzureADB2CAuth.verify_token: its outcome, the cache it leaves and the
\* number of requests it made to the discovery endpoint
b2c_verify_token(token, cache, ep, t) ==
    LET hdr == GetUnverifiedHeader(token)
    IN IF hdr.kind = "raise"
       THEN [out |-> B2CExcept(hdr), cache |-> cache, requests |-> 0]
       ELSE
       LET j == CallGetJwks(cache, ep)
           found == IF j.kind = "raise" THEN j ELSE FindKey(j, hdr.kid)
           out == IF found.kind = "raise" THEN B2CExcept(found)
                  ELSE IF found.key = None
                  THEN B2CExcept(Raise("HTTPException", 401, "Invalid token"))
                  ELSE LET d == PyJwtDecode(token, found.key, client_id, issuer, t)
                       IN IF d.kind = "raise" THEN B2CExcept(d) ELSE d
       IN [out |-> out, cache |-> j.cache, requests |-> j.requests]

\* Python's truth value of a str or None
Truthy(x) == x # None /\ x # ""

\* (given_name + ' ' + family_name).strip(), the defaults being ''
StripJoin(g, f) ==
    LET gg == IF g = None THEN "" ELSE g
        ff == IF f = None THEN "" ELSE f
    IN IF gg = "" THEN ff
       ELSE IF ff = "" THEN gg
       ELSE gg \o " " \o ff

\* get_user_from_token without the subject test and without validation
get_user_from_token_unchecked(payload) ==
    RetUser([id |-> IF Truthy(payload.sub) THEN payload.sub ELSE payload.oid,
             email |-> payload.email, name |-> payload.name,
             household_id |-> None])

\* AzureADB2CAuth.get_user_from_token; `except Exception` turns the
\* HTTPException of a missing subject and the ValidationError of User(...)
\* into HTTPException(401, "Invalid token payload")
get_user_from_token(payload) ==
    LET user_id == IF Truthy(payload.sub) THEN payload.sub ELSE payload.oid
        email == IF payload.emails # <<>> THEN payload.emails[1] ELSE payload.email
        name == IF Truthy(payload.name) THEN payload.name
                ELSE StripJoin(payload.given_name, payload.family_name)
    IN IF ~Truthy(user_id)
       THEN Raise("HTTPException", 401, "Invalid token payload")
       ELSE LET user == UserInit(
                    [id |-> user_id,
                     email |-> IF Truthy(email) THEN email
                               ELSE user_id \o "@b2c.local",
                     name |-> IF name # "" THEN name ELSE "B2C User",
                     householdId |-> None,
                     preferences |-> "defaults"])
            IN IF user.kind = "raise"
               THEN Raise("HTTPException", 401, "Invalid token payload")
               ELSE user

\* the step was not reached
NotReached == [kind |-> "not reached"]

\* auth_b2c.get_current_user: an HTTPException is re-raised as it is
b2c_get_current_user(token, cache, ep, t) ==
    LET v == b2c_verify_token(token, cache, ep, t)
    IN [out |-> IF v.out.kind = "raise" THEN v.out
                ELSE get_user_from_token(v.out.payload),
        verified |-> v.out, cache |-> v.cache, requests |-> v.requests]

\* auth_b2c.get_optional_user behind Depends(security): the bearer scheme
\* runs first and raises for a request without credentials
get_optional_user(header, st, cache, ep, t) ==
    LET cred == security(header, st)
    IN IF cred.kind = "raise"
       THEN [out |-> cred, verified |-> NotReached, cache |-> cache, requests |-> 0]
       ELSE LET u == b2c_get_current_user(cred.credentials, cache, ep, t)
            IN IF u.out.kind = "raise" /\ u.out.exc = "HTTPException"
               THEN [u EXCEPT !.out = RetNone]
               ELSE u

(***************************************************************************)
(* Inputs of the federated verifier                                        *)
(***************************************************************************)
B2CClaims ==
    [sub |-> None, oid |-> "abc", emails |-> <<>>, email |-> None,
     name |-> "Ann", given_name |-> None, family_name |-> None]

B2CToken(kid, sig, aud, iss, exp) ==
    [fmt |-> "jwt", kid |-> kid, sig |-> sig, aud |-> aud, iss |-> iss,
     exp |-> exp, claims |-> B2CClaims]

\* the provider's tokens (signed with the key their header names), tokens
\* for another audience or issuer, a forged signature, and a string that is
\* no JWT
B2CTokens ==
    { Garbage,
      B2CToken("k1", "k1", client_id, issuer, 1),
      B2CToken("k1", "k1", client_id, issuer, MaxB2CTime),
      B2CToken("k1", "k1", "another-client", issuer, MaxB2CTime),
      B2CToken("k1", "k1", client_id, "another-issuer", MaxB2CTime),
      B2CToken("k1", "forged", client_id, issuer, MaxB2CTime),
      B2CToken("k2", "k2", client_id, issuer, MaxB2CTime) }

B2CHeaders == {NoHeader} \cup {Bearer(t) : t \in B2CTokens}

KeySets == {{"k1"}, {"k2"}}

(***************************************************************************)
(* Actions of the federated verifier                                       *)
(***************************************************************************)
LocalUnchanged == UNCHANGED <<issued, mapped, store>>

B2CTick ==
    /\ now < MaxB2CTime
    /\ now' = now + 1
    /\ UNCHANGED <<last, jwks, endpoint, fetches, pending>>
    /\ LocalUnchanged

\* the discovery endpoint goes down or comes back
EndpointFlip ==
    /\ endpoint' = [endpoint EXCEPT !.up = ~endpoint.up]
    /\ UNCHANGED <<now, last, jwks, fetches, pending>>
    /\ LocalUnchanged

\* a request arrives while others are still waiting for the event loop
Receive ==
    \E header \in B2CHeaders :
        /\ Cardinality(pending) < NReq
        /\ header \notin pending
        /\ pending' = pending \cup {header}
        /\ UNCHANGED <<now, last, jwks, endpoint, fetches>>
        /\ LocalUnchanged

\* GET /protected (main.py): the bearer scheme, then get_current_user, then
\* the handler body.  Nothing awaits inside, so the whole runs in one step
\* of the event loop.
HandleProtected(header, st, cache, ep, t) ==
    LET cred == security(header, st)
        r == IF cred.kind = "raise"
             THEN [out |-> cred, verified |-> NotReached,
                   cache |-> cache, requests |-> 0]
             ELSE b2c_get_current_user(cred.credentials, cache, ep, t)
    IN [rec |-> [op |-> "protected", header |-> header, at |-> t,
                 out |-> r.out, verified |-> r.verified, up |-> ep.up,
                 cacheBefore |-> cache, requests |-> r.requests],
        cache |-> r.cache, requests |-> r.requests]

Protected ==
    \E header \in pending, st \in HTTPBearerRejectStatus :
        LET h == HandleProtected(header, st, jwks, endpoint, now)
        IN /\ last' = h.rec
           /\ jwks' = h.cache
           /\ fetches' = fetches + h.requests
           /\ pending' = pending \ {header}
           /\ UNCHANGED <<now, endpoint>>
           /\ LocalUnchanged

\* a request to an endpoint that declares Depends(get_optional_user)
Optional ==
    \E header \in pending, st \in HTTPBearerRejectStatus :
        LET r == get_optional_user(header, st, jwks, endpoint, now)
        IN /\ last' = [op |-> "optional", header |-> header, at |-> now,
                       out |-> r.out, verified |-> r.verified, up |-> endpoint.up,
                       cacheBefore |-> jwks, requests |-> r.requests]
           /\ jwks' = r.cache
           /\ fetches' = fetches + r.requests
           /\ pending' = pending \ {header}
           /\ UNCHANGED <<now, endpoint>>
           /\ LocalUnchanged

InitB2C ==
    /\ now = 0
    /\ issued = NoOp
    /\ last = NoOp
    /\ jwks = NoJwks
    /\ \E ks \in KeySets : endpoint = [up |-> TRUE, keys |-> ks]
    /\ fetches = 0
    /\ pending = {}
    /\ mapped = NoOp
    /\ store = {}

NextB2C == B2CTick \/ EndpointFlip \/ Receive \/ Protected \/ Optional

SpecB2C == InitB2C /\ [][NextB2C]_vars

(***************************************************************************)
(* AzureADB2CAuth.get_jwks awaited, as a caller on the event loop would:   *)
(* the coroutine has no await inside (requests.get blocks), so one call is *)
(* one step.  The provider may rotate the keys it serves.                  *)
(***************************************************************************)
MaxFetches == 4

\* successful fetches so far
Successes == IF last.op = "get_jwks" THEN last.successes ELSE 0

AwaitGetJwks ==
    LET r == get_jwks(jwks, endpoint)
    IN /\ fetches + r.requests <= MaxFetches
       /\ jwks' = r.cache
       /\ fetches' = fetches + r.requests
       /\ last' = [op |-> "get_jwks", kind |-> r.kind, requests |-> r.requests,
                   cacheBefore |-> jwks,
                   successes |-> IF r.kind = "jwks" /\ r.requests > 0
                                 THEN Successes + 1 ELSE Successes]
       /\ UNCHANGED <<now, endpoint, pending>>
       /\ LocalUnchanged

\* the key sets a provider serves over time: a key is added before the old
\* one is withdrawn
RotatedKeySets == KeySets \cup {UNION KeySets}

\* the provider publishes another key set
RotateKeys ==
    \E ks \in RotatedKeySets \ {endpoint.keys} :
        /\ endpoint' = [endpoint EXCEPT !.keys = ks]
        /\ UNCHANGED <<now, last, jwks, fetches, pending>>
        /\ LocalUnchanged

InitJwks ==
    /\ now = 0
    /\ issued = NoOp
    /\ last = NoOp
    /\ jwks = NoJwks
    /\ \E ks \in KeySets, up \in BOOLEAN : endpoint = [up |-> up, keys |-> ks]
    /\ fetches = 0
    /\ pending = {}
    /\ mapped = NoOp
    /\ store = {}

NextJwks == AwaitGetJwks \/ EndpointFlip \/ RotateKeys

SpecJwks == InitJwks /\ [][NextJwks]_vars

(***************************************************************************)
(* The key-set fetch in time.  requests.get(self.jwks_url) is called       *)
(* without a timeout argument: it returns when the endpoint answers or     *)
(* the connection fails, and not before.  The call is synchronous inside   *)
(* an `async def`, so while it waits the event loop serves nothing else.   *)
(***************************************************************************)
\* get_jwks is entered; with the cache empty, requests.get is sent to an
\* endpoint that will answer it or that stays silent
BeginGetJwks ==
    /\ pending = {}
    /\ jwks = NoJwks
    /\ fetches < MaxFetches
    /\ pending' = {[call |-> "requests.get", silent |-> endpoint.silent]}
    /\ fetches' = fetches + 1
    /\ UNCHANGED <<now, last, jwks, endpoint>>
    /\ LocalUnchanged

\* the endpoint answers, or the connection fails: requests.get returns or
\* raises and get_jwks runs to its end
CompleteGetJwks ==
    \E f \in pending :
        LET r == get_jwks(jwks, endpoint)
        IN /\ ~f.silent
           /\ pending' = {}
           /\ jwks' = r.cache
           /\ last' = [op |-> "get_jwks", kind |-> r.kind]
           /\ UNCHANGED <<now, endpoint, fetches>>
           /\ LocalUnchanged

\* another request is authenticated; the event loop is free
ServeOther ==
    /\ pending = {}
    /\ last' = [op |-> "served", cached |-> jwks # NoJwks]
    /\ UNCHANGED <<now, jwks, endpoint, fetches, pending>>
    /\ LocalUnchanged

\* the endpoint starts or stops leaving requests unanswered
SilenceFlip ==
    /\ endpoint' = [endpoint EXCEPT !.silent = ~endpoint.silent]
    /\ UNCHANGED <<now, last, jwks, fetches, pending>>
    /\ LocalUnchanged

InitFetch ==
    /\ now = 0
    /\ issued = NoOp
    /\ last = NoOp
    /\ jwks = NoJwks
    /\ \E ks \in KeySets, up \in BOOLEAN, silent \in BOOLEAN :
           endpoint = [up |-> up, keys |-> ks, silent |-> silent]
    /\ fetches = 0
    /\ pending = {}
    /\ mapped = NoOp
    /\ store = {}

NextFetch ==
    \/ BeginGetJwks
    \/ CompleteGetJwks
    \/ ServeOther
    \/ EndpointFlip
    \/ SilenceFlip

\* the event loop runs what is ready: a response that has arrived is
\* handled, a request that waits is served
SpecFetch ==
    /\ InitFetch
    /\ [][NextFetch]_vars
    /\ WF_vars(CompleteGetJwks)
    /\ WF_vars(ServeOther)

(***************************************************************************)
(* get_user_from_token as a function of the payload alone                  *)
(***************************************************************************)
Payloads ==
    [sub : {None, "abc"}, oid : {None, "abc", "xyz"},
     emails : {<<>>, <<"ann@x.com">>}, email : {None, "ann@x.com"},
     name : {None, "", "Ann"}, given_name : {None, "Al"},
     family_name : {None, "Bo"}]

MapClaims ==
    /\ mapped.op = "input"
    /\ mapped' = [op |-> "mapped", payload |-> mapped.payload,
                  out |-> get_user_from_token(mapped.payload)]
    /\ UNCHANGED <<now, issued, last, jwks, endpoint, fetches, pending, store>>

InitMap ==
    /\ now = 0
    /\ issued = NoOp
    /\ last = NoOp
    /\ jwks = NoJwks
    /\ endpoint = [up |-> TRUE, keys |-> {}]
    /\ fetches = 0
    /\ pending = {}
    /\ \E p \in Payloads : mapped = [op |-> "input", payload |-> p]
    /\ store = {}

NextMap == MapClaims

SpecMap == InitMap /\ [][NextMap]_vars

(***************************************************************************)
(* get_current_user of either authenticator, applied to one request drawn  *)
(* from the inputs: main.py mounts the routers that depend on              *)
(* app.core.auth and GET /protected, which depends on app.core.auth_b2c.   *)
(***************************************************************************)
IssuedAtStart ==
    {create_access_token(c, d, 0) : c \in ClaimSets, d \in Deltas}

RoutedRequests ==
    {[route |-> "food-items", header |-> h] :
        h \in {NoHeader, Basic(Garbage)}
            \cup {Bearer(t) : t \in ForgedTokens \cup SignedTokens \cup IssuedAtStart}}
    \cup {[route |-> "protected", header |-> h] : h \in B2CHeaders}

RouteLocal ==
    \E r \in pending, st \in HTTPBearerRejectStatus :
        /\ r.route = "food-items"
        /\ last' = Handle(r.header, st, now)
        /\ pending' = pending \ {r}
        /\ UNCHANGED <<now, issued, jwks, endpoint, fetches, mapped, store>>

RouteProtected ==
    \E r \in pending, st \in HTTPBearerRejectStatus :
        LET h == HandleProtected(r.header, st, jwks, endpoint, now)
        IN /\ r.route = "protected"
           /\ last' = h.rec
           /\ jwks' = h.cache
           /\ fetches' = fetches + h.requests
           /\ pending' = pending \ {r}
           /\ UNCHANGED <<now, issued, endpoint, mapped, store>>

InitExc ==
    /\ now \in 0..MaxTime
    /\ issued = NoOp
    /\ last = NoOp
    /\ jwks = NoJwks
    /\ \E ks \in KeySets, up \in BOOLEAN : endpoint = [up |-> up, keys |-> ks]
    /\ fetches = 0
    /\ \E r \in RoutedRequests : pending = {r}
    /\ mapped = NoOp
    /\ store = {}

NextExc == RouteLocal \/ RouteProtected

SpecExc == InitExc /\ [][NextExc]_vars

(***************************************************************************)
(* passlib's CryptContext(schemes=["bcrypt"]), as app/core/auth.py uses    *)
(* it.  A hash is the string "$2b$12$" + salt + digest.  The digest of a   *)
(* secret x is written H(x): an injective image of the salt and of the     *)
(* bytes bcrypt reads, which are the first BcryptMaxBytes of the secret.   *)
(***************************************************************************)
BcryptMaxBytes == 72
BcryptIdent == "$2b$12$"
Salts == {"s1", "s2"}

\* the NUL character, written as Python writes it
NUL == "\\0"

\* `sub in s` for two strings
Contains(s, sub) ==
    \E i \in 1..(Len(s) - Len(sub) + 1) : SubSeq(s, i, i + Len(sub) - 1) = sub

\* The repository does not pin the bcrypt package: up to 4.x hashpw and
\* checkpw read the first 72 bytes of a longer secret, from 5.0 on they
\* raise ValueError for it.
BcryptBuilds == {"truncate", "raise"}

BcryptHash(secret, salt, lib) ==
    IF Contains(secret, NUL)
    THEN Raise("PasswordValueError", 0, "secret contains NULL byte")
    ELSE IF Len(secret) > BcryptMaxBytes /\ lib = "raise"
    THEN Raise("ValueError", 0, "password cannot be longer than 72 bytes")
    ELSE [kind |-> "hash",
          hash |-> BcryptIdent \o salt \o "H("
                   \o (IF Len(secret) > BcryptMaxBytes
                       THEN SubSeq(secret, 1, BcryptMaxBytes) ELSE secret)
                   \o ")"]

\* get_password_hash storing the password as it is
get_password_hash_plain(password, salt, lib) ==
    [kind |-> "hash", hash |-> password]

\* pwd_context.hash(password): a fresh salt for every call
get_password_hash(password, salt, lib) == BcryptHash(password, salt, lib)

\* verify_password answering True for every password
verify_password_any(plain_password, hashed_password, lib) ==
    [kind |-> "bool", value |-> TRUE]

\* pwd_context.verify(plain, hashed): identify the scheme, hash the secret
\* under the salt of the stored hash and compare
verify_password(plain_password, hashed_password, lib) ==
    IF \/ Len(hashed_password) < Len(BcryptIdent) + 2
       \/ SubSeq(hashed_password, 1, Len(BcryptIdent)) # BcryptIdent
    THEN Raise("UnknownHashError", 0, "hash could not be identified")
    ELSE LET salt == SubSeq(hashed_password, Len(BcryptIdent) + 1,
                            Len(BcryptIdent) + 2)
             h == BcryptHash(plain_password, salt, lib)
         IN IF h.kind = "raise" THEN h
            ELSE [kind |-> "bool", value |-> h.hash = hashed_password]

\* a secret of exactly BcryptMaxBytes characters
Pad72 ==
    "012345678901234567890123456789012345678901234567890123456789012345678901"

HashPasswords ==
    { "password1", "password2", "pass" \o NUL \o "word",
      Pad72, Pad72 \o "A", Pad72 \o "B" }

\* get_password_hash(p2), then verify_password of p2 and of p1 against it
HashAndVerify ==
    /\ last.op = "input"
    /\ LET h == get_password_hash(last.p2, last.salt, last.lib)
       IN last' = [op |-> "hashed", p1 |-> last.p1, p2 |-> last.p2,
                   lib |-> last.lib, hashed |-> h,
                   same |-> IF h.kind = "raise" THEN h
                            ELSE verify_password(last.p2, h.hash, last.lib),
                   other |-> IF h.kind = "raise" THEN h
                             ELSE verify_password(last.p1, h.hash, last.lib)]
    /\ UNCHANGED <<now, issued>>
    /\ FederatedUnchanged

InitHash ==
    /\ now = 0
    /\ issued = NoOp
    /\ \E p1 \in HashPasswords, p2 \in HashPasswords, salt \in Salts,
          lib \in BcryptBuilds :
           last = [op |-> "input", p1 |-> p1, p2 |-> p2, salt |-> salt, lib |-> lib]
    /\ jwks = NoJwks
    /\ endpoint = [up |-> TRUE, keys |-> {}]
    /\ fetches = 0
    /\ pending = {}
    /\ mapped = NoOp
    /\ store = {}

NextHash == HashAndVerify

SpecHash == InitHash /\ [][NextHash]_vars

(***************************************************************************)
(* app/api/auth.py and app/api/users.py over the user documents of the     *)
(* container.  A handler is a function of the documents, the request and   *)
(* what its environment draws (the uuid, the salt, the bcrypt build,       *)
(* whether the container can be reached); it answers a status, a detail,   *)
(* the line it logged, the documents it leaves and the token it issued.    *)
(***************************************************************************)
\* UserCreate.password: Field(..., min_length=8)
PasswordMinLength == 8

NoToken == [fmt |-> "none"]

Resp(status, detail, logged, docs, token) ==
    [status |-> status, detail |-> detail, logged |-> logged,
     docs |-> docs, token |-> token]

\* the user_doc of register; it carries no userId, the partition key path
UserDoc(user_id, email, name, hashed) ==
    [id |-> user_id, email |-> email, name |-> name, password |-> hashed,
     userId |-> None]

\* SELECT * FROM c WHERE c.email = @email; a document without an email
\* does not match
QueryByEmail(docs, email) ==
    {d \in docs : "email" \in DOMAIN d /\ d.email = email}

ReadItem_any_partition(docs, item, partition_key) ==
    {d \in docs : d.id = item}

\* container.read_item(item, partition_key)
ReadItem(docs, item, partition_key) ==
    {d \in docs : d.id = item /\ d.userId = partition_key}

\* get_container() before init_database has run, or the service unreachable
ContainerError == "Database not initialized. Call init_database() first."

\* the data of the token login and register issue: no household_id claim
TokenData(user_id, email, name) ==
    [sub |-> user_id, email |-> email, name |-> name, household_id |-> None]

\* POST /auth/register
register(docs, req, user_id, salt, lib, up, t) ==
    IF ~(/\ EmailStrOk(req.email)
         /\ NameOk(req.name)
         /\ Len(req.password) >= PasswordMinLength)
    THEN Resp(422, "validation error", "", docs, NoToken)
    ELSE IF ~up
    THEN Resp(500, "Failed to register user",
              "Registration error: " \o ContainerError, docs, NoToken)
    ELSE IF QueryByEmail(docs, req.email) # {}
    THEN Resp(400, "Email already registered", "", docs, NoToken)
    ELSE LET h == get_password_hash(req.password, salt, lib)
         IN IF h.kind = "raise"
            THEN Resp(500, "Failed to register user",
                      "Registration error: " \o h.detail, docs, NoToken)
            ELSE Resp(200, "User registered successfully", "",
                      docs \cup {UserDoc(user_id, req.email, req.name, h.hash)},
                      create_access_token(
                          TokenData(user_id, req.email, req.name), NoDelta, t))

\* POST /auth/login
login(docs, req, lib, up, t) ==
    IF ~EmailStrOk(req.email)
    THEN Resp(422, "validation error", "", docs, NoToken)
    ELSE IF ~up
    THEN Resp(500, "Failed to login", "Login error: " \o ContainerError,
              docs, NoToken)
    ELSE IF QueryByEmail(docs, req.email) = {}
    THEN Resp(401, "Invalid email or password", "", docs, NoToken)
    ELSE LET user == CHOOSE d \in QueryByEmail(docs, req.email) : TRUE
             v == verify_password(req.password, user.password, lib)
         IN IF v.kind = "raise"
            THEN Resp(500, "Failed to login", "Login error: " \o v.detail,
                      docs, NoToken)
            ELSE IF ~v.value
            THEN Resp(401, "Invalid email or password", "", docs, NoToken)
            ELSE Resp(200, "Login successful", "", docs,
                      create_access_token(
                          TokenData(user.id, user.email, user.name), NoDelta, t))

\* POST /auth/logout: no dependency, no state
logout(docs) == Resp(200, "Logout successful", "", docs, NoToken)

\* Depends(get_current_user) of the local authenticator behind the bearer
\* scheme
CurrentUser(header, st, t) ==
    LET cred == security(header, st)
    IN IF cred.kind = "raise" THEN cred
       ELSE get_current_user(cred.credentials, t)

\* POST /auth/refresh
refresh_token(docs, current_user, t) ==
    IF current_user.kind = "raise"
    THEN Resp(current_user.status, current_user.detail, "", docs, NoToken)
    ELSE Resp(200, "Token refreshed successfully", "", docs,
              create_access_token(
                  TokenData(current_user.user.id, current_user.user.email,
                            current_user.user.name), NoDelta, t))

\* GET /auth/me
get_current_user_info(docs, current_user) ==
    IF current_user.kind = "raise"
    THEN Resp(current_user.status, current_user.detail, "", docs, NoToken)
    ELSE Resp(200, "User information retrieved successfully", "", docs, NoToken)

\* PUT /users/profile with a new name: the document is read under the
\* partition key current_user.id, merged and replaced; User(**result) then
\* fails on the camel-case createdAt/updatedAt of the document
update_user_profile(docs, current_user, name, up) ==
    IF current_user.kind = "raise"
    THEN Resp(current_user.status, current_user.detail, "", docs, NoToken)
    ELSE IF ~NameOk(name)
    THEN Resp(422, "validation error", "", docs, NoToken)
    ELSE IF ~up
    THEN Resp(500, "Failed to update user profile",
              "Error updating user profile: " \o ContainerError, docs, NoToken)
    ELSE LET found == ReadItem(docs, current_user.user.id, current_user.user.id)
         IN IF found = {}
            THEN Resp(500, "Failed to update user profile",
                      "Error updating user profile: NotFound", docs, NoToken)
            ELSE LET doc == CHOOSE d \in found : TRUE
                 IN Resp(500, "Failed to update user profile",
                         "Error updating user profile: validation error for User",
                         (docs \ {doc}) \cup {[doc EXCEPT !.name = name]},
                         NoToken)

\* DELETE /users/profile
delete_user_profile(docs, current_user, up) ==
    IF current_user.kind = "raise"
    THEN Resp(current_user.status, current_user.detail, "", docs, NoToken)
    ELSE IF ~up
    THEN Resp(500, "Failed to delete user profile",
              "Error deleting user profile: " \o ContainerError, docs, NoToken)
    ELSE LET found == ReadItem(docs, current_user.user.id, current_user.user.id)
         IN IF found = {}
            THEN Resp(500, "Failed to delete user profile",
                      "Error deleting user profile: NotFound", docs, NoToken)
            ELSE Resp(200, "Profile deleted successfully", "",
                      docs \ found, NoToken)

(***************************************************************************)
(* Inputs of the account endpoints                                         *)
(***************************************************************************)
Ids == {"u1", "u2"}
Emails == {"ann@x.com", "bob@x.com", ""}
Names == {"Ann"}
AcctPasswords == {"password1", "hunter22", Pad72 \o "A"}

\* the headers a client sends: none, a string of its own, the token it holds
AcctHeaders == {NoHeader, Bearer(Garbage), Bearer(issued.token)}

\* the calls a client makes to the server
ServerOps ==
    {"register", "login", "logout", "refresh", "me", "update", "delete"}

\* the token the client holds was accepted by verify_token, and only calls
\* to the server were made since
HeldAccepted ==
    \/ last.op = "held" /\ last.out.kind = "payload"
    \/ last.op \in ServerOps /\ last.heldOk

(***************************************************************************)
(* Actions of the account endpoints.  The client keeps the token it holds. *)
(***************************************************************************)
AcctUnchanged == UNCHANGED <<issued, jwks, endpoint, fetches, pending, mapped>>

Register ==
    \E email \in Emails, name \in Names, password \in AcctPasswords,
       user_id \in Ids \ {d.id : d \in store}, salt \in Salts,
       lib \in BcryptBuilds, up \in BOOLEAN :
        LET req == [email |-> email, name |-> name, password |-> password]
            r == register(store, req, user_id, salt, lib, up, now)
        IN /\ store' = r.docs
           /\ last' = [op |-> "register", email |-> email, password |-> password,
                       status |-> r.status, logged |-> r.logged,
                       heldOk |-> HeldAccepted]
           /\ UNCHANGED now
           /\ AcctUnchanged

Login ==
    \E email \in Emails, password \in AcctPasswords, lib \in BcryptBuilds,
       up \in BOOLEAN :
        LET req == [email |-> email, password |-> password]
            r == login(store, req, lib, up, now)
        IN /\ store' = r.docs
           /\ last' = [op |-> "login", email |-> email,
                       status |-> r.status, logged |-> r.logged,
                       heldOk |-> HeldAccepted]
           /\ UNCHANGED now
           /\ AcctUnchanged

Logout ==
    LET r == logout(store)
    IN /\ store' = r.docs
       /\ last' = [op |-> "logout", status |-> r.status, logged |-> r.logged,
                   heldOk |-> HeldAccepted]
       /\ UNCHANGED now
       /\ AcctUnchanged

\* the record of a call to an endpoint that depends on get_current_user
Called(op, header, t, dep, r) ==
    [op |-> op, header |-> header, at |-> t, user |-> dep,
     status |-> r.status, logged |-> r.logged, heldOk |-> HeldAccepted]

Refresh ==
    \E header \in AcctHeaders, st \in HTTPBearerRejectStatus :
        LET dep == CurrentUser(header, st, now)
            r == refresh_token(store, dep, now)
        IN /\ store' = r.docs
           /\ last' = Called("refresh", header, now, dep, r)
           /\ UNCHANGED now
           /\ AcctUnchanged

Me ==
    \E header \in AcctHeaders, st \in HTTPBearerRejectStatus :
        LET dep == CurrentUser(header, st, now)
            r == get_current_user_info(store, dep)
        IN /\ store' = r.docs
           /\ last' = Called("me", header, now, dep, r)
           /\ UNCHANGED now
           /\ AcctUnchanged

UpdateProfile ==
    \E header \in AcctHeaders, st \in HTTPBearerRejectStatus,
       name \in {"Anna"}, up \in BOOLEAN :
        LET dep == CurrentUser(header, st, now)
            r == update_user_profile(store, dep, name, up)
        IN /\ store' = r.docs
           /\ last' = Called("update", header, now, dep, r)
           /\ UNCHANGED now
           /\ AcctUnchanged

DeleteProfile ==
    \E header \in AcctHeaders, st \in HTTPBearerRejectStatus, up \in BOOLEAN :
        LET dep == CurrentUser(header, st, now)
            r == delete_user_profile(store, dep, up)
        IN /\ store' = r.docs
           /\ last' = Called("delete", header, now, dep, r)
           /\ UNCHANGED now
           /\ AcctUnchanged

\* verify_token applied to the token the client holds
VerifyHeld ==
    /\ last' = [op |-> "held", at |-> now,
                out |-> verify_token(issued.token, now),
                prev |-> last.op,
                prevOk |-> last.op \in ServerOps /\ last.heldOk]
    /\ UNCHANGED <<now, store>>
    /\ AcctUnchanged

\* a registration made before the start, its token having r seconds left
\* at the start
EarlierRegister(r) ==
    register({}, [email |-> "ann@x.com", name |-> "Ann", password |-> "password1"],
             "u1", "s1", "truncate", TRUE,
             r * TicksPerSecond
                 - access_token_expire_minutes * 60 * TicksPerSecond)

\* a user who registered one second less than half an hour ago and holds
\* the token of the registration
InitAcct ==
    /\ now = 0
    /\ last = NoOp
    /\ store = EarlierRegister(1).docs
    /\ issued = [op |-> "issue", token |-> EarlierRegister(1).token,
                 iat |-> 0, delta |-> NoDelta,
                 data |-> EarlierRegister(1).token.claims]
    /\ jwks = NoJwks
    /\ endpoint = [up |-> TRUE, keys |-> {}]
    /\ fetches = 0
    /\ pending = {}
    /\ mapped = NoOp

NextAcct ==
    \/ Tick
    \/ Register
    \/ Login
    \/ Logout
    \/ Refresh
    \/ Me
    \/ UpdateProfile
    \/ DeleteProfile
    \/ VerifyHeld

SpecAcct == InitAcct /\ [][NextAcct]_vars

(***************************************************************************)
(* The food item endpoints (app/api/food_items.py), each as a function of  *)
(* the documents of the container, the User that get_current_user hands    *)
(* to the handler, and the request.  A document is the dict the handler    *)
(* writes: a function from its keys to their values.  Quantities are       *)
(* floats in the source and whole numbers here; dates are day numbers and  *)
(* isoformat() turns them into the strings that are stored.                *)
(***************************************************************************)
MaxDay == 2

\* datetime.isoformat()
isoformat(d) == "2024-01-0" \o ToString(d) \o "T00:00:00"

\* the order of two stored isoformat strings, as the query compares them
IsoLeq(a, b) ==
    \E i \in 1..9, j \in 1..9 : isoformat(i) = a /\ isoformat(j) = b /\ i <= j

\* str.replace(old, "")
RECURSIVE StrRemove(_, _)
StrRemove(str, old) ==
    IF str = "" THEN ""
    ELSE (IF SubSeq(str, 1, 1) = old THEN "" ELSE SubSeq(str, 1, 1))
             \o StrRemove(SubSeq(str, 2, Len(str)), old)

\* {**a, **b}
DictMerge(a, b) ==
    [k \in DOMAIN a \cup DOMAIN b |-> IF k \in DOMAIN b THEN b[k] ELSE a[k]]

\* the fields FoodItem(**doc) cannot do without
FoodItemRequired ==
    {"id", "user_id", "created_at", "updated_at", "name", "purchase_date",
     "expiration_date", "quantity"}

\* FoodItem(**doc): a ValidationError unless every required field is a key
FoodItemInit(doc) == FoodItemRequired \subseteq DOMAIN doc

FoodResp(status, detail, docs, data) ==
    [status |-> status, detail |-> detail, docs |-> docs, data |-> data]

\* GET /food-items/{item_id}
get_food_item(docs, current_user, item_id) ==
    LET found == ReadItem(docs, item_id, current_user.id)
    IN IF found # {} /\ \A item \in found : FoodItemInit(item)
       THEN FoodResp(200, "", docs, found)
       ELSE FoodResp(404, "Food item not found", docs, {})

\* the item_data of create_food_item
ItemData(item_id, current_user, food_item, t) ==
    [id |-> item_id,
     userId |-> current_user.id,
     householdId |-> current_user.household_id,
     name |-> food_item.name,
     purchaseDate |-> isoformat(food_item.purchase_date),
     expirationDate |-> isoformat(food_item.expiration_date),
     quantity |-> food_item.quantity,
     createdAt |-> t,
     updatedAt |-> t]

\* POST /food-items/
create_food_item(docs, current_user, food_item, item_id, t) ==
    LET created_item == ItemData(item_id, current_user, food_item, t)
    IN IF FoodItemInit(created_item)
       THEN FoodResp(200, "Food item created successfully",
                     docs \cup {created_item}, {created_item})
       ELSE FoodResp(500, "Failed to create food item",
                     docs \cup {created_item}, {})

\* the update_data of update_food_item; `fields` holds the fields of the
\* request that were set to a value, a field set to null is skipped
UpdateData(fields, t) ==
    LET keys == {StrRemove(f, "_") : f \in DOMAIN fields}
    IN [k \in keys \cup {"updatedAt"} |->
           IF k = "updatedAt" THEN t
           ELSE LET field == CHOOSE f \in DOMAIN fields : StrRemove(f, "_") = k
                IN IF field \in {"purchase_date", "expiration_date"}
                   THEN isoformat(fields[field])
                   ELSE fields[field]]

\* PUT /food-items/{item_id}
update_food_item(docs, current_user, item_id, fields, t) ==
    LET found == ReadItem(docs, item_id, current_user.id)
    IN IF found = {}
       THEN FoodResp(500, "Failed to update food item", docs, {})
       ELSE LET existing_item == CHOOSE d \in found : TRUE
                updated_item == DictMerge(existing_item, UpdateData(fields, t))
                replaced == (docs \ found) \cup {updated_item}
            IN IF FoodItemInit(updated_item)
               THEN FoodResp(200, "Food item updated successfully",
                             replaced, {updated_item})
               ELSE FoodResp(500, "Failed to update food item", replaced, {})

\* DELETE /food-items/{item_id}
delete_food_item(docs, current_user, item_id) ==
    LET found == ReadItem(docs, item_id, current_user.id)
    IN IF found = {}
       THEN FoodResp(500, "Failed to delete food item", docs, {})
       ELSE FoodResp(200, "Food item deleted successfully", docs \ found, {})

\* GET /food-items/expiring, as the handler runs when it is called; the
\* route is declared after /{item_id}, which takes the path first
get_expiring_items(docs, current_user, days, today) ==
    LET items == {c \in docs :
                     /\ c.userId = current_user.id
                     /\ IsoLeq(c.expirationDate, isoformat(today + days))}
    IN IF \A item \in items : FoodItemInit(item)
       THEN FoodResp(200, "", docs, items)
       ELSE FoodResp(500, "Failed to get expiring items", docs, {})

\* POST /food-items/{item_id}/consume
consume_food_item(docs, current_user, item_id, quantity, t) ==
    LET found == ReadItem(docs, item_id, current_user.id)
    IN IF found = {}
       THEN FoodResp(500, "Failed to consume food item", docs, {})
       ELSE LET existing_item == CHOOSE d \in found : TRUE
                current_quantity == existing_item.quantity
            IN IF quantity >= current_quantity
               THEN FoodResp(200, "Food item fully consumed", docs \ found, {})
               ELSE FoodResp(200, "Consumed",
                        (docs \ found) \cup
                            {[existing_item EXCEPT
                                 !.quantity = current_quantity - quantity,
                                 !.updatedAt = t]},
                        {})

(***************************************************************************)
(* Inputs of the food item endpoints                                       *)
(***************************************************************************)
ItemIds == {"i1", "i2"}
Days == 1..MaxDay
Quantities == {1, 2}

\* the User of lines 68-73 of core/auth.py for a token of login, register
\* or refresh, whose claims carry no household_id
UserOfToken(user_id) ==
    [id |-> user_id, email |-> user_id \o "@x.com", name |-> "U",
     household_id |-> None]

FoodItemCreates ==
    [name : {"milk"}, purchase_date : {1}, expiration_date : {1},
     quantity : {2}]

\* the fields of a FoodItemUpdate that are set to a value
FoodItemUpdates ==
    {[expiration_date |-> d] : d \in Days}
        \cup {[purchase_date |-> MaxDay], [quantity |-> 1]}

FoodUnchanged == UNCHANGED <<now, issued, jwks, endpoint, fetches, pending, mapped>>

FoodCalled(op, current_user, item_id, arg, r) ==
    [op |-> op, user |-> current_user.id, item |-> item_id, arg |-> arg,
     status |-> r.status, data |-> r.data]

GetFoodItem ==
    \E u \in Ids, item_id \in ItemIds :
        LET r == get_food_item(store, UserOfToken(u), item_id)
        IN /\ last' = FoodCalled("get_food_item", UserOfToken(u), item_id, <<>>, r)
           /\ store' = r.docs
           /\ FoodUnchanged

CreateFoodItem ==
    \E u \in Ids, item_id \in ItemIds \ {d.id : d \in store},
       food_item \in FoodItemCreates :
        LET r == create_food_item(store, UserOfToken(u), food_item, item_id, now)
        IN /\ last' = FoodCalled("create_food_item", UserOfToken(u), item_id, <<>>, r)
           /\ store' = r.docs
           /\ FoodUnchanged

UpdateFoodItem ==
    \E u \in Ids, item_id \in ItemIds, fields \in FoodItemUpdates :
        LET r == update_food_item(store, UserOfToken(u), item_id, fields, now)
        IN /\ last' = FoodCalled("update_food_item", UserOfToken(u), item_id, fields, r)
           /\ store' = r.docs
           /\ FoodUnchanged

DeleteFoodItem ==
    \E u \in Ids, item_id \in ItemIds :
        LET r == delete_food_item(store, UserOfToken(u), item_id)
        IN /\ last' = FoodCalled("delete_food_item", UserOfToken(u), item_id, <<>>, r)
           /\ store' = r.docs
           /\ FoodUnchanged

GetExpiringItems ==
    \E u \in Ids, days \in Days :
        LET r == get_expiring_items(store, UserOfToken(u), days, 0)
        IN /\ last' = FoodCalled("get_expiring_items", UserOfToken(u), None, <<>>, r)
           /\ store' = r.docs
           /\ FoodUnchanged

ConsumeFoodItem ==
    \E u \in Ids, item_id \in ItemIds, quantity \in Quantities :
        LET r == consume_food_item(store, UserOfToken(u), item_id, quantity, now)
        IN /\ last' = FoodCalled("consume_food_item", UserOfToken(u), item_id, <<>>, r)
           /\ store' = r.docs
           /\ FoodUnchanged

InitFood ==
    /\ now = 0
    /\ issued = NoOp
    /\ last = FoodCalled("none", UserOfToken(None), None, <<>>,
                         FoodResp(0, "", {}, {}))
    /\ jwks = NoJwks
    /\ endpoint = [up |-> TRUE, keys |-> {}]
    /\ fetches = 0
    /\ pending = {}
    /\ mapped = NoOp
    /\ store = {}

NextFood ==
    \/ GetFoodItem
    \/ CreateFoodItem
    \/ UpdateFoodItem
    \/ DeleteFoodItem
    \/ GetExpiringItems
    \/ ConsumeFoodItem

SpecFood == InitFood /\ [][NextFood]_vars

(***************************************************************************)
(* consume_food_item called through several server processes that share    *)
(* the container.  Inside one process the handler runs from its first      *)
(* line to its response without a suspension point; between processes the  *)
(* container sees the calls one at a time: the read_item of one handler    *)
(* and its delete_item or replace_item can have another process's calls    *)
(* in between.  replace_item is sent without an etag condition.            *)
(***************************************************************************)
MaxCalls == 3
OriginalQuantity == 3

Workers == {"w1", "w2"}

\* the owner of the item, as get_current_user would hand them over
Owner == UserOfToken("u1")

\* the response ledger: the last status and the sum of the quantities of
\* the calls that were answered with success
Consumed(status, total) ==
    [op |-> "consume_food_item", status |-> status, total |-> total]

ConsumeUnchanged == UNCHANGED <<now, issued, jwks, endpoint, mapped>>

\* lines 274-279: read_item and current_quantity
ConsumeRead ==
    \E w \in Workers \ {p.worker : p \in pending}, quantity \in Quantities :
        LET found == ReadItem(store, "i1", Owner.id)
        IN /\ fetches < MaxCalls
           /\ fetches' = fetches + 1
           /\ IF found = {}
              THEN /\ last' = Consumed(500, last.total)
                   /\ pending' = pending
              ELSE /\ last' = last
                   /\ pending' = pending \cup
                          {[worker |-> w, quantity |-> quantity,
                            existing_item |-> CHOOSE d \in found : TRUE]}
           /\ UNCHANGED store
           /\ ConsumeUnchanged

\* lines 281-302: delete_item or replace_item with what was read
ConsumeWrite ==
    \E p \in pending :
        LET current_quantity == p.existing_item.quantity
            found == ReadItem(store, "i1", Owner.id)
        IN /\ pending' = pending \ {p}
           /\ IF found = {}
              THEN /\ last' = Consumed(500, last.total)
                   /\ store' = store
              ELSE /\ last' = Consumed(200, last.total + p.quantity)
                   /\ store' =
                        IF p.quantity >= current_quantity
                        THEN store \ found
                        ELSE (store \ found) \cup
                                 {[p.existing_item EXCEPT
                                      !.quantity = current_quantity - p.quantity,
                                      !.updatedAt = now]}
           /\ UNCHANGED fetches
           /\ ConsumeUnchanged

InitConsume ==
    /\ now = 0
    /\ issued = NoOp
    /\ last = Consumed(0, 0)
    /\ jwks = NoJwks
    /\ endpoint = [up |-> TRUE, keys |-> {}]
    /\ fetches = 0
    /\ pending = {}
    /\ mapped = NoOp
    /\ store = create_food_item({}, Owner,
                   [name |-> "milk", purchase_date |-> 1, expiration_date |-> 1,
                    quantity |-> OriginalQuantity], "i1", 0).docs

NextConsume == ConsumeRead \/ ConsumeWrite

SpecConsume == InitConsume /\ [][NextConsume]_vars

(***************************************************************************)
(* register called through several server processes that share the        *)
(* container.  The query for the email and the create_item are two calls   *)
(* to the container; the container has no unique key on email, and the     *)
(* id of each new document is a fresh uuid.                                *)
(***************************************************************************)
MaxRegisters == 3

RaceEmails == {"ann@x.com", "bob@x.com"}
RaceIds == {"u1", "u2", "u3"}

Registered(email, status) ==
    [op |-> "register", email |-> email, status |-> status]

RaceUnchanged == UNCHANGED <<now, issued, jwks, endpoint, mapped>>

\* lines 21-52: the query, the 400 for an email that is found, the user_doc
RegisterQuery ==
    \E w \in Workers \ {p.worker : p \in pending}, email \in RaceEmails,
       user_id \in RaceIds \ ({d.id : d \in store} \cup {p.user_doc.id : p \in pending}) :
        LET req == [email |-> email, name |-> "Ann", password |-> "password1"]
            r == register(store, req, user_id, "s1", "truncate", TRUE, now)
        IN /\ fetches < MaxRegisters
           /\ fetches' = fetches + 1
           /\ IF r.status # 200
              THEN /\ last' = Registered(email, r.status)
                   /\ pending' = pending
              ELSE /\ last' = last
                   /\ pending' = pending \cup
                          {[worker |-> w,
                            user_doc |-> CHOOSE d \in r.docs \ store : TRUE]}
           /\ UNCHANGED store
           /\ RaceUnchanged

\* lines 55-74: create_item and the response
RegisterCreate ==
    \E p \in pending :
        /\ pending' = pending \ {p}
        /\ store' = store \cup {p.user_doc}
        /\ last' = Registered(p.user_doc.email, 200)
        /\ UNCHANGED fetches
        /\ RaceUnchanged

InitRace ==
    /\ now = 0
    /\ issued = NoOp
    /\ last = Registered(None, 0)
    /\ jwks = NoJwks
    /\ endpoint = [up |-> TRUE, keys |-> {}]
    /\ fetches = 0
    /\ pending = {}
    /\ mapped = NoOp
    /\ store = {}

NextRace == RegisterQuery \/ RegisterCreate

SpecRace == InitRace /\ [][NextRace]_vars

(***************************************************************************)
(* The household endpoints (app/api/household.py), each as a function of   *)
(* the documents of the container, the User that get_current_user hands    *)
(* to the handler, and the request.  User documents and household          *)
(* documents are written without a userId, the partition key path of the   *)
(* container, and read_item is called with the document's own id as the    *)
(* partition key.                                                          *)
(***************************************************************************)
\* household.py imports datetime inside create_household only; the name is
\* not bound in join_household and leave_household
DatetimeBound == FALSE

IsHousehold(d) == "members" \in DOMAIN d
Households(docs) == {d \in docs : IsHousehold(d)}
Members(h) == {h.members[i] : i \in 1..Len(h.members)}

\* list.remove(x), for a list that holds x
RECURSIVE ListRemove(_, _)
ListRemove(list, x) ==
    IF list = <<>> THEN <<>>
    ELSE IF Head(list) = x THEN Tail(list)
    ELSE <<Head(list)>> \o ListRemove(Tail(list), x)

HouseResp(status, detail, docs, data) ==
    [status |-> status, detail |-> detail, docs |-> docs, data |-> data]

HouseholdDoc_owner_outside(household_id, name, current_user, t) ==
    [id |-> household_id, name |-> name, ownerId |-> name,
     members |-> <<current_user.id>>, createdAt |-> t, updatedAt |-> t,
     userId |-> None]

\* the household_doc of create_household
HouseholdDoc(household_id, name, current_user, t) ==
    [id |-> household_id, name |-> name, ownerId |-> current_user.id,
     members |-> <<current_user.id>>, createdAt |-> t, updatedAt |-> t,
     userId |-> None]

\* lines 72-82, 184-194, 237-247: the user's document is read and replaced
\* with a new householdId
SetUserHousehold(docs, current_user, household_id, bound, t) ==
    LET found == ReadItem(docs, current_user.id, current_user.id)
    IN IF found = {} \/ ~bound
       THEN [ok |-> FALSE, docs |-> docs]
       ELSE [ok |-> TRUE,
             docs |-> (docs \ found) \cup
                 {DictMerge(CHOOSE d \in found : TRUE,
                            [householdId |-> household_id, updatedAt |-> t])}]

\* POST /household/
create_household(docs, current_user, name, household_id, t) ==
    IF Truthy(current_user.household_id)
    THEN HouseResp(400, "User is already part of a household", docs, {})
    ELSE LET household_doc == HouseholdDoc(household_id, name, current_user, t)
             created == docs \cup {household_doc}
             user == SetUserHousehold(created, current_user, household_id, TRUE, t)
         IN IF user.ok
            THEN HouseResp(200, "Household created successfully", user.docs,
                           {household_doc})
            ELSE HouseResp(500, "Failed to create household", created, {})

\* POST /household/join
join_household(docs, current_user, household_id, t) ==
    IF Truthy(current_user.household_id)
    THEN HouseResp(400, "User is already part of a household", docs, {})
    ELSE LET found == ReadItem(docs, household_id, household_id)
         IN IF found = {}
            THEN HouseResp(500, "Failed to join household", docs, {})
            ELSE LET household_doc == CHOOSE d \in found : TRUE
                     joins == current_user.id \notin Members(household_doc)
                     joined == IF joins
                               THEN (docs \ found) \cup
                                      {[household_doc EXCEPT
                                           !.members = Append(@, current_user.id),
                                           !.updatedAt = t]}
                               ELSE docs
                 IN IF joins /\ ~DatetimeBound
                    THEN HouseResp(500, "Failed to join household", docs, {})
                    ELSE LET user == SetUserHousehold(joined, current_user,
                                         household_id, DatetimeBound, t)
                         IN IF user.ok
                            THEN HouseResp(200, "Successfully joined household",
                                           user.docs, {})
                            ELSE HouseResp(500, "Failed to join household",
                                           joined, {})

\* DELETE /household/leave
leave_household(docs, current_user, t) ==
    IF ~Truthy(current_user.household_id)
    THEN HouseResp(400, "User is not part of a household", docs, {})
    ELSE LET found == ReadItem(docs, current_user.household_id,
                               current_user.household_id)
         IN IF found = {}
            THEN HouseResp(500, "Failed to leave household", docs, {})
            ELSE LET household_doc == CHOOSE d \in found : TRUE
                     leaves == current_user.id \in Members(household_doc)
                     members == ListRemove(household_doc.members, current_user.id)
                     ownerId == IF household_doc.ownerId = current_user.id
                                   /\ Len(members) > 0
                                THEN members[1] ELSE household_doc.ownerId
                     left == IF leaves
                             THEN (docs \ found) \cup
                                    {[household_doc EXCEPT
                                         !.members = members,
                                         !.ownerId = ownerId,
                                         !.updatedAt = t]}
                             ELSE docs
                 IN IF leaves /\ ~DatetimeBound
                    THEN HouseResp(500, "Failed to leave household", docs, {})
                    ELSE LET user == SetUserHousehold(left, current_user, None,
                                         DatetimeBound, t)
                         IN IF user.ok
                            THEN HouseResp(200, "Successfully left household",
                                           user.docs, {})
                            ELSE HouseResp(500, "Failed to leave household",
                                           left, {})

\* GET /household/members
get_household_members(docs, current_user) ==
    IF ~Truthy(current_user.household_id)
    THEN HouseResp(400, "User is not part of a household", docs, {})
    ELSE LET found == ReadItem(docs, current_user.household_id,
                               current_user.household_id)
         IN IF found = {}
            THEN HouseResp(500, "Failed to get household members", docs, {})
            ELSE LET household_doc == CHOOSE d \in found : TRUE
                 IN HouseResp(200, "", docs,
                        {[id |-> member_doc.id, name |-> member_doc.name,
                          email |-> member_doc.email,
                          isOwner |-> member_doc.id = household_doc.ownerId] :
                            member_doc \in
                                UNION {ReadItem(docs, member_id, member_id) :
                                          member_id \in Members(household_doc)}})

(***************************************************************************)
(* Inputs of the household endpoints                                       *)
(***************************************************************************)
HouseholdIds == {"h1", "h2"}

\* the callers: the User of a token of login, register or refresh, and the
\* User of a token that carries a household_id claim, which no endpoint
\* issues
HouseUsers ==
    {UserOfToken(u) : u \in Ids}
        \cup {[UserOfToken(u) EXCEPT !.household_id = h] :
                 u \in Ids, h \in HouseholdIds}

HouseUnchanged == UNCHANGED <<now, issued, jwks, endpoint, fetches, pending, mapped>>

HouseCalled(op, current_user, household_id, r) ==
    [op |-> op, user |-> current_user.id, of |-> current_user.household_id,
     household |-> household_id, status |-> r.status, data |-> r.data,
     before |-> Households(store)]

CreateHousehold ==
    \E current_user \in HouseUsers,
       household_id \in HouseholdIds \ {d.id : d \in store} :
        LET r == create_household(store, current_user, "home", household_id, now)
        IN /\ last' = HouseCalled("create_household", current_user, household_id, r)
           /\ store' = r.docs
           /\ HouseUnchanged

JoinHousehold ==
    \E current_user \in HouseUsers, household_id \in HouseholdIds :
        LET r == join_household(store, current_user, household_id, now)
        IN /\ last' = HouseCalled("join_household", current_user, household_id, r)
           /\ store' = r.docs
           /\ HouseUnchanged

LeaveHousehold ==
    \E current_user \in HouseUsers :
        LET r == leave_household(store, current_user, now)
        IN /\ last' = HouseCalled("leave_household", current_user,
                                  current_user.household_id, r)
           /\ store' = r.docs
           /\ HouseUnchanged

GetHouseholdMembers ==
    \E current_user \in HouseUsers :
        LET r == get_household_members(store, current_user)
        IN /\ last' = HouseCalled("get_household_members", current_user,
                                  current_user.household_id, r)
           /\ store' = r.docs
           /\ HouseUnchanged

\* the two users have registered
InitHouse ==
    /\ now = 0
    /\ issued = NoOp
    /\ last = [op |-> "none", user |-> None, of |-> None, household |-> None,
               status |-> 0, data |-> {}, before |-> {}]
    /\ jwks = NoJwks
    /\ endpoint = [up |-> TRUE, keys |-> {}]
    /\ fetches = 0
    /\ pending = {}
    /\ mapped = NoOp
    /\ store =
         register(
             register({}, [email |-> "ann@x.com", name |-> "Ann",
                           password |-> "password1"],
                      "u1", "s1", "truncate", TRUE, 0).docs,
             [email |-> "bob@x.com", name |-> "Bob", password |-> "hunter22"],
             "u2", "s2", "truncate", TRUE, 0).docs

NextHouse ==
    \/ CreateHousehold
    \/ JoinHousehold
    \/ LeaveHousehold
    \/ GetHouseholdMembers

SpecHouse == InitHouse /\ [][NextHouse]_vars

(***************************************************************************)
(* The response bodies of the account, profile and household endpoints.    *)
(* A body is taken as the set of the strings it carries: the values of     *)
(* its JSON members, and for a token the values of its claims, which       *)
(* anyone who holds the token can read.                                    *)
(***************************************************************************)
\* users.py has no import of datetime at module level
UsersDatetimeBound == FALSE

\* raise HTTPException(status_code, detail)
ErrorBody(detail) == {detail}

\* the claims of a token, readable without the key
TokenStrings(token) == {token.claims.sub, token.claims.email, token.claims.name}

\* the User model as JSON
UserStrings(user) == {user.id, user.email, user.name, user.household_id}

\* dict.pop(key, None)
DictPop(doc, key) == [k \in DOMAIN doc \ {key} |-> doc[k]]

\* dict.get(key), None when the key is missing
DictGet(doc, key) == IF key \in DOMAIN doc THEN doc[key] ELSE None

\* auth.py lines 62-74: the body of a successful register
register_body(r, req, user_id) ==
    IF r.status # 200 THEN ErrorBody(r.detail)
    ELSE TokenStrings(r.token) \cup {user_id, req.email, req.name, r.detail}

login_body_whole_user(r, docs, req) ==
    IF r.status # 200 THEN ErrorBody(r.detail)
    ELSE LET user == CHOOSE d \in QueryByEmail(docs, req.email) : TRUE
         IN TokenStrings(r.token) \cup {user[k] : k \in DOMAIN user}
                \cup {r.detail}

\* auth.py lines 112-125: the body of a successful login
login_body(r, docs, req) ==
    IF r.status # 200 THEN ErrorBody(r.detail)
    ELSE LET user == CHOOSE d \in QueryByEmail(docs, req.email) : TRUE
         IN TokenStrings(r.token)
                \cup {user.id, user.email, user.name, DictGet(user, "householdId")}
                \cup {r.detail}

\* auth.py lines 142-146
refresh_token_body(r) ==
    IF r.status # 200 THEN ErrorBody(r.detail)
    ELSE TokenStrings(r.token) \cup {r.detail}

\* auth.py lines 164-168
get_current_user_info_body(r, current_user) ==
    IF r.status # 200 THEN ErrorBody(r.detail)
    ELSE UserStrings(current_user.user) \cup {r.detail}

\* GET /users/profile
get_user_profile(docs, current_user) ==
    LET found == ReadItem(docs, current_user.user.id, current_user.user.id)
    IN IF found = {}
       THEN ErrorBody("Failed to get user profile")
       ELSE LET user_doc == DictPop(CHOOSE d \in found : TRUE, "password")
                user == UserInit(user_doc)
            IN IF user.kind = "raise"
               THEN ErrorBody("Failed to get user profile")
               ELSE UserStrings(user.user) \cup {"Profile retrieved successfully"}

\* users.py lines 71-82: the body of update_user_profile, which ends in
\* the except branch whenever the document was found
update_user_profile_body(r) == ErrorBody(r.detail)

\* PUT /users/preferences
update_user_preferences(docs, current_user, preferences) ==
    LET found == ReadItem(docs, current_user.user.id, current_user.user.id)
    IN IF found = {} \/ ~UsersDatetimeBound
       THEN ErrorBody("Failed to update user preferences")
       ELSE {preferences[k] : k \in DOMAIN preferences}
                \cup {"Preferences updated successfully"}

\* household.py lines 283-295
get_household_members_body(r) ==
    IF r.status # 200 THEN ErrorBody(r.detail)
    ELSE UNION {{m.id, m.name, m.email} : m \in r.data}

(***************************************************************************)
(* Inputs and actions of the response bodies                               *)
(***************************************************************************)
BodyEmails == {"ann@x.com", "bob@x.com", "cat@x.com"}
BodyPasswords == {"password1", "hunter22"}

UserDocs(docs) == {d \in docs : "password" \in DOMAIN d}

\* the callers: the User of a token of login or register of a stored
\* user, with and without a household_id claim
BodyUsers ==
    {RetUser([id |-> d.id, email |-> d.email, name |-> d.name,
              household_id |-> h]) :
        d \in UserDocs(store), h \in {None} \cup {x.id : x \in Households(store)}}

BodyUnchanged == UNCHANGED <<now, issued, jwks, endpoint, fetches, pending, mapped>>

Answered(op, body) == [op |-> op, body |-> body]

BodyRegister ==
    \E email \in BodyEmails, password \in BodyPasswords, salt \in Salts :
        LET req == [email |-> email, name |-> "Cat", password |-> password]
            r == register(store, req, "u3", salt, "truncate", TRUE, now)
        IN /\ last' = Answered("register", register_body(r, req, "u3"))
           /\ store' = r.docs
           /\ BodyUnchanged

BodyLogin ==
    \E email \in BodyEmails, password \in BodyPasswords :
        LET req == [email |-> email, password |-> password]
            r == login(store, req, "truncate", TRUE, now)
        IN /\ last' = Answered("login", login_body(r, store, req))
           /\ store' = r.docs
           /\ BodyUnchanged

BodyRefresh ==
    \E current_user \in BodyUsers :
        LET r == refresh_token(store, current_user, now)
        IN /\ last' = Answered("refresh_token", refresh_token_body(r))
           /\ store' = r.docs
           /\ BodyUnchanged

BodyMe ==
    \E current_user \in BodyUsers :
        LET r == get_current_user_info(store, current_user)
        IN /\ last' = Answered("get_current_user_info",
                               get_current_user_info_body(r, current_user))
           /\ store' = r.docs
           /\ BodyUnchanged

BodyGetProfile ==
    \E current_user \in BodyUsers :
        /\ last' = Answered("get_user_profile",
                            get_user_profile(store, current_user))
        /\ UNCHANGED store
        /\ BodyUnchanged

BodyUpdateProfile ==
    \E current_user \in BodyUsers, name \in {"Ann B", ""} :
        LET r == update_user_profile(store, current_user, name, TRUE)
        IN /\ last' = Answered("update_user_profile", update_user_profile_body(r))
           /\ store' = r.docs
           /\ BodyUnchanged

BodyUpdatePreferences ==
    \E current_user \in BodyUsers :
        /\ last' = Answered("update_user_preferences",
                            update_user_preferences(store, current_user,
                                                    [theme |-> "dark"]))
        /\ UNCHANGED store
        /\ BodyUnchanged

BodyMembers ==
    \E current_user \in BodyUsers :
        LET r == get_household_members(store, current_user.user)
        IN /\ last' = Answered("get_household_members",
                               get_household_members_body(r))
           /\ store' = r.docs
           /\ BodyUnchanged

\* two users have registered and the first has called create_household
InitBody ==
    /\ now = 0
    /\ issued = NoOp
    /\ last = Answered("none", {})
    /\ jwks = NoJwks
    /\ endpoint = [up |-> TRUE, keys |-> {}]
    /\ fetches = 0
    /\ pending = {}
    /\ mapped = NoOp
    /\ \E salt \in Salts :
         store =
           create_household(
             register(
               register({}, [email |-> "ann@x.com", name |-> "Ann",
                             password |-> "password1"],
                        "u1", salt, "truncate", TRUE, 0).docs,
               [email |-> "bob@x.com", name |-> "Bob", password |-> "hunter22"],
               "u2", salt, "truncate", TRUE, 0).docs,
             UserOfToken("u1"), "home", "h1", 0).docs

NextBody ==
    \/ BodyRegister
    \/ BodyLogin
    \/ BodyRefresh
    \/ BodyMe
    \/ BodyGetProfile
    \/ BodyUpdateProfile
    \/ BodyUpdatePreferences
    \/ BodyMembers

SpecBody == InitBody /\ [][NextBody]_vars

(***************************************************************************)
(* Claims about the local authenticator, checked under SpecLocal           *)
(***************************************************************************)
IsRequest == last.op = "request"
IsVerify == last.op = "verify"

\* the wall clock, in whole seconds, is past the token's exp claim
Expired(token, t) == token.hasExp /\ t \div TicksPerSecond > token.exp

WellSigned(token) == token.fmt = "jwt" /\ token.key = secret_key

\* the credentials of the request are malformed, expired or wrongly signed
BadToken(header, t) ==
    /\ header.scheme = "Bearer"
    /\ \/ ~WellSigned(header.credentials)
       \/ Expired(header.credentials, t)

\* the request carries no bearer token at all
NoBearer(header) == header.scheme # "Bearer"

VerifiedIssuedWithTtl ==
    /\ IsVerify
    /\ issued.op = "issue"
    /\ last.token = issued.token
    /\ issued.delta.given
    /\ issued.delta.ticks > 0

ExpiryInstant == issued.iat + issued.delta.ticks

\* C2 (as stated): the token of create_access_token(c, t), t > 0, is accepted
\* at every time before issuance + t and rejected at every time after it.
C2_AcceptedBeforeRejectedAfter ==
    VerifiedIssuedWithTtl =>
        /\ last.at < ExpiryInstant => last.result = RetPayload(issued.data)
        /\ last.at > ExpiryInstant => last.result = RetNone

\* C2 (amended): the token is accepted at every time before issuance + t and
\* rejected at every time one second or more after issuance + t (the exp
\* claim is compared in whole seconds).
C2_AcceptedBeforeRejectedSecondAfter ==
    VerifiedIssuedWithTtl =>
        /\ last.at < ExpiryInstant => last.result = RetPayload(issued.data)
        /\ last.at >= ExpiryInstant + TicksPerSecond => last.result = RetNone

\* a token verified a second or more after issuance + t was rejected
C2_Witness ==
    /\ VerifiedIssuedWithTtl
    /\ last.at >= ExpiryInstant + TicksPerSecond
    /\ last.result = RetNone

\* the lifetime create_access_token falls back to, in ticks
DefaultLifetime == access_token_expire_minutes * 60 * TicksPerSecond

\* C22 (as stated): the expiry is issuance time + ttl for every ttl the
\* caller supplies, the default lifetime is used only when none is supplied,
\* and the caller's claim dictionary is left unchanged.
C22_ExpiryIsIssuancePlusTtl ==
    issued.op = "issue" =>
        /\ issued.delta.given =>
              issued.token.exp = (issued.iat + issued.delta.ticks) \div TicksPerSecond
        /\ ~issued.delta.given =>
              issued.token.exp = (issued.iat + DefaultLifetime) \div TicksPerSecond
        /\ issued.data \in ClaimSets
        /\ issued.token.claims = issued.data

\* C22 (amended): the expiry is issuance time + ttl, in whole seconds, for
\* every non-zero ttl the caller supplies; the default lifetime is used when
\* no ttl or a ttl of zero is supplied; the caller's claim dictionary is left
\* unchanged.
C22_ExpiryIsIssuancePlusNonZeroTtl ==
    issued.op = "issue" =>
        /\ (issued.delta.given /\ issued.delta.ticks # 0) =>
              issued.token.exp = (issued.iat + issued.delta.ticks) \div TicksPerSecond
        /\ (~issued.delta.given \/ issued.delta.ticks = 0) =>
              issued.token.exp = (issued.iat + DefaultLifetime) \div TicksPerSecond
        /\ issued.data \in ClaimSets
        /\ issued.token.claims = issued.data

\* a token issued with a ttl of zero at a later time carries the default
\* lifetime
C22_Witness ==
    /\ issued.op = "issue"
    /\ issued.iat > 0
    /\ issued.delta = Delta(0)
    /\ issued.token.exp = (issued.iat + DefaultLifetime) \div TicksPerSecond

\* C3: for a token verify_token accepts and that carries sub, the local
\* get_current_user returns the identity made of the token's sub, email,
\* name and household_id claims.
C3_IdentityFromClaims ==
    (/\ IsRequest
     /\ last.header.scheme = "Bearer"
     /\ WellSigned(last.header.credentials)
     /\ ~Expired(last.header.credentials, last.at)
     /\ last.header.credentials.claims.sub # None)
        => /\ last.user.kind = "user"
           /\ last.user.user.id = last.header.credentials.claims.sub
           /\ last.user.user.email = last.header.credentials.claims.email
           /\ last.user.user.name = last.header.credentials.claims.name
           /\ last.user.user.household_id
                  = last.header.credentials.claims.household_id

\* C10: verify_token never raises; it returns the decoded claim set when the
\* signature is valid and the token is not expired, the invalid sentinel
\* (None) otherwise.
C10_VerifyTokenTotal ==
    IsVerify =>
        /\ last.result.kind \in {"payload", "none"}
        /\ (WellSigned(last.token) /\ ~Expired(last.token, last.at))
              => last.result = RetPayload(last.token.claims)
        /\ ~(WellSigned(last.token) /\ ~Expired(last.token, last.at))
              => last.result = RetNone

\* a token signed with another key was answered with the sentinel
C10_Witness ==
    /\ IsVerify
    /\ last.token.fmt = "jwt"
    /\ last.token.key # secret_key
    /\ last.result = RetNone

\* C11: a token signed with any secret other than the configured one is
\* rejected by verify_token, whatever claims it carries.
C11_OtherSecretRejected ==
    (IsVerify /\ last.token.fmt = "jwt" /\ last.token.key # secret_key)
        => last.result = RetNone

\* a token signed with another secret, unexpired and with a sub claim, was
\* rejected
C11_Witness ==
    /\ IsVerify
    /\ last.token.fmt = "jwt"
    /\ last.token.key # secret_key
    /\ last.token.hasExp
    /\ ~Expired(last.token, last.at)
    /\ last.token.claims.sub # None
    /\ last.result = RetNone

(***************************************************************************)
(* Claims about the federated verifier, checked under SpecB2C              *)
(***************************************************************************)
IsB2C == last.op \in {"protected", "optional"}

\* the request carried a bearer token whose header could be decoded
HeaderParsed ==
    /\ IsB2C
    /\ last.header.scheme = "Bearer"
    /\ last.header.credentials.fmt = "jwt"

B2CTok == last.header.credentials

\* the key the header names is in the provider's key set and signed the token
ValidSignature(token) == token.kid \in endpoint.keys /\ token.sig = token.kid

\* C4: verify_token returns a payload only if the signature verifies with the
\* key resolved from the key set, the audience is the configured client id,
\* the issuer is the configured issuer and the expiry is in the future; a
\* token with a valid signature and another audience is rejected.
C4_PayloadOnlyIfAllChecksPass ==
    HeaderParsed =>
        /\ last.verified.kind \in {"payload", "raise"}
        /\ last.verified.kind = "payload" =>
              /\ ValidSignature(B2CTok)
              /\ B2CTok.aud = client_id
              /\ B2CTok.iss = issuer
              /\ B2CTok.exp * TicksPerSecond > last.at
        /\ (ValidSignature(B2CTok) /\ B2CTok.aud # client_id) =>
              /\ last.verified.kind = "raise"
              /\ last.out.kind # "user"

\* a token with a valid signature and another audience was rejected
C4_Witness ==
    /\ HeaderParsed
    /\ ValidSignature(B2CTok)
    /\ B2CTok.aud # client_id
    /\ B2CTok.iss = issuer
    /\ B2CTok.exp * TicksPerSecond > last.at
    /\ last.verified.kind = "raise"
    /\ last.verified.status = 401

\* C5: with the key-set cache empty, a verification triggers exactly one
\* request to the discovery endpoint, and the verifications waiting meanwhile
\* trigger none of their own.
C5_ColdCacheFetchesOnce ==
    (HeaderParsed /\ last.cacheBefore = NoJwks) =>
        /\ last.requests = 1
        /\ last.up => (fetches = 1 /\ jwks # NoJwks)

\* C6: a key identifier absent from the cached key set makes the verifier
\* fetch the key set once, cache it and retry the lookup; if it is still
\* absent the token is rejected as an invalid token after that one attempt.
C6_AbsentKidFetchedOnce ==
    (HeaderParsed /\ last.cacheBefore = NoJwks /\ last.up) =>
        /\ last.requests = 1
        /\ jwks = Jwks(endpoint.keys)
        /\ B2CTok.kid \notin endpoint.keys =>
              last.verified = Raise("HTTPException", 401, "Invalid token")

\* C7: when the key-set fetch fails, get_current_user surfaces a
\* service-unavailable error, never 401 Unauthorized.
C7_FetchFailureIsServiceUnavailable ==
    (HeaderParsed /\ last.op = "protected" /\ last.cacheBefore = NoJwks /\ ~last.up)
        => /\ last.out.kind = "raise"
           /\ last.out.status \in {500, 503}

\* C8: get_optional_user returns None for every request whose token is
\* missing, malformed or fails verification, and raises nothing.
C8_OptionalUserNeverRaises ==
    (/\ last.op = "optional"
     /\ \/ last.header.scheme # "Bearer"
        \/ last.header.credentials.fmt # "jwt"
        \/ last.verified.kind = "raise")
        => last.out = RetNone

\* one of the four checks of jwt.decode fails for the token of the request
SignatureFails(token) == token.sig # token.kid
FailsOneCheck ==
    /\ HeaderParsed
    /\ last.op = "protected"
    /\ B2CTok.kid \in endpoint.keys
    /\ \/ SignatureFails(B2CTok)
       \/ B2CTok.exp * TicksPerSecond <= last.at
       \/ B2CTok.aud # client_id
       \/ B2CTok.iss # issuer

\* C12: an expired token, a wrong-audience token, a wrong-issuer token and a
\* bad-signature token get the same client-visible outcome, a 401 with one
\* message: any two such requests in a row are answered alike.
C12_SameOutcomeForEveryFailedCheck ==
    [][(FailsOneCheck /\ FailsOneCheck')
          => (last'.out = last.out /\ last'.out.status = 401)]_vars

\* an expired token was answered 401
C12_Witness ==
    /\ FailsOneCheck
    /\ ~SignatureFails(B2CTok)
    /\ B2CTok.exp * TicksPerSecond <= last.at
    /\ last.out.kind = "raise"
    /\ last.out.status = 401

\* C20: a token whose header cannot be decoded is rejected as an invalid
\* token without any request to the discovery endpoint, also with the
\* key-set cache empty.
C20_BadHeaderRejectedWithoutFetch ==
    (IsB2C /\ last.header.scheme = "Bearer" /\ last.header.credentials.fmt # "jwt")
        => /\ last.verified = Raise("HTTPException", 401, "Invalid token")
           /\ last.requests = 0
           /\ jwks = last.cacheBefore

\* such a token was rejected while the cache was empty
C20_Witness ==
    /\ last.op = "protected"
    /\ last.header.scheme = "Bearer"
    /\ last.header.credentials.fmt # "jwt"
    /\ last.cacheBefore = NoJwks
    /\ last.out = Raise("HTTPException", 401, "Invalid token")
    /\ fetches = 0

(***************************************************************************)
(* Claim about both authenticators, checked under SpecExc                  *)
(***************************************************************************)
OnlyUnauthorized(r) ==
    /\ r.kind \in {"user", "raise"}
    /\ r.kind = "raise" => (r.exc = "HTTPException" /\ r.status = 401)

\* C13: whatever is raised while verifying a token or building the identity,
\* in either authenticator, reaches the caller of get_current_user as 401
\* Unauthorized; nothing else escapes.
C13_OnlyUnauthorizedEscapes ==
    /\ (IsRequest /\ last.header.scheme = "Bearer") => OnlyUnauthorized(last.user)
    /\ (last.op = "protected" /\ last.header.scheme = "Bearer")
          => /\ OnlyUnauthorized(last.out)
             /\ last.verified.kind = "raise"
                   => (last.verified.exc = "HTTPException"
                       /\ last.verified.status = 401)

\* the AttributeError raised inside the federated verify_token left as 401
C13_Witness ==
    /\ last.op = "protected"
    /\ HeaderParsed
    /\ last.verified = Raise("HTTPException", 401, "Token verification failed")
    /\ last.out = last.verified

(***************************************************************************)
(* Claim about get_user_from_token, checked under SpecMap                  *)
(***************************************************************************)
HasSubject(p) == Truthy(p.sub) \/ Truthy(p.oid)
SubjectOf(p) == IF Truthy(p.sub) THEN p.sub ELSE p.oid
NoEmailClaim(p) == p.emails = <<>> /\ p.email = None

\* the address is the subject id followed by a domain
EmailContains(e, id) ==
    \E suffix \in {"", "@b2c.local", "@placeholder.invalid"} : e = id \o suffix

\* C9: for a payload with a subject (sub or oid) and no email claim,
\* get_user_from_token does not fail and returns an identity whose email is
\* a placeholder containing the subject id.
C9_PlaceholderEmail ==
    (mapped.op = "mapped" /\ HasSubject(mapped.payload)
        /\ NoEmailClaim(mapped.payload))
        => /\ mapped.out.kind = "user"
           /\ EmailContains(mapped.out.user.email, SubjectOf(mapped.payload))

\* C21: for a payload with neither a sub nor an oid claim, whatever its email
\* and name claims, get_user_from_token yields no identity and raises the 401
\* that get_current_user passes on to the caller.
C21_NoSubjectIsUnauthorized ==
    (mapped.op = "mapped" /\ ~HasSubject(mapped.payload))
        => mapped.out = Raise("HTTPException", 401, "Invalid token payload")

\* a payload with email and name claims and no subject was refused
C21_Witness ==
    /\ mapped.op = "mapped"
    /\ ~HasSubject(mapped.payload)
    /\ mapped.payload.emails # <<>>
    /\ Truthy(mapped.payload.name)
    /\ mapped.out.kind = "raise"
    /\ mapped.out.status = 401

(***************************************************************************)
(* Claims about the password hash, checked under SpecHash                  *)
(***************************************************************************)
IsHashed == last.op = "hashed"
True == [kind |-> "bool", value |-> TRUE]
False == [kind |-> "bool", value |-> FALSE]

\* bcrypt reads the whole of the password
Hashable(p) == Len(p) <= BcryptMaxBytes /\ ~Contains(p, NUL)

IsBcryptHash(h) ==
    /\ Len(h) > Len(BcryptIdent)
    /\ SubSeq(h, 1, Len(BcryptIdent)) = BcryptIdent

\* C14: after any sequence of register, login and profile operations the
\* password field of every stored user is the hash get_password_hash made of
\* the submitted password, never the plaintext, and no line written to the
\* log holds a plaintext password.
C14_OnlyHashesStored ==
    /\ \A d \in store :
        /\ d.password \notin AcctPasswords
        /\ IsBcryptHash(d.password)
    /\ (last.op = "register" /\ last.status = 200) =>
        \E d \in store, salt \in Salts :
            /\ d.email = last.email
            /\ BcryptHash(last.password, salt, "truncate").hash = d.password
    /\ last.op \in ServerOps =>
        \A p \in AcctPasswords : ~Contains(last.logged, p)

\* a second user has registered; the store holds two documents
C14_Witness ==
    /\ last.op = "register"
    /\ last.status = 200
    /\ Cardinality(store) = 2
    /\ \E d \in store : d.email = last.email /\ d.password # last.password

\* C15: a token that verify_token accepted before a call to logout, refresh,
\* login or register is accepted by verify_token after that call, at every
\* time before its expiry.
C15_NoServerSideRevocation ==
    (/\ last.op = "held"
     /\ last.prev \in {"logout", "refresh", "login", "register"}
     /\ last.prevOk
     /\ last.at \div TicksPerSecond < issued.token.exp)
        => last.out = RetPayload(issued.token.claims)

\* the held token, accepted before a logout, was accepted after it at a
\* later time
C15_Witness ==
    /\ last.op = "held"
    /\ last.prev = "logout"
    /\ last.prevOk
    /\ last.at > 0
    /\ last.out = RetPayload(issued.token.claims)

C18_FetchedOnceThenFrozen ==
    /\ [](Successes <= 1)
    /\ [][jwks # NoJwks => (jwks' = jwks /\ fetches' = fetches)]_vars

\* after a failed and a successful fetch and a key rotation, get_jwks
\* answered from the cache without a request
C18_Witness ==
    /\ last.op = "get_jwks"
    /\ last.requests = 0
    /\ last.cacheBefore # NoJwks
    /\ jwks.keys # endpoint.keys
    /\ fetches > 1
    /\ Successes = 1

\* C19: a verification that finds the cache empty while the discovery
\* endpoint is down makes one fetch attempt and leaves the cache empty, and
\* so does the next one.
C19_FailedFetchNotCachedAndRetried ==
    (HeaderParsed /\ last.cacheBefore = NoJwks /\ ~last.up) =>
        /\ last.requests = 1
        /\ fetches >= 1
        /\ jwks = NoJwks

\* C23: a key-set fetch that was started ends, with the key set or with an
\* error, also when the discovery endpoint never answers; the event loop is
\* free again for later authentications.
C23_FetchEndsInBoundedTime ==
    (pending # {}) ~> (pending = {})

(***************************************************************************)
(* Claims about the food item endpoints, checked under SpecFood            *)
(***************************************************************************)
ItemOps ==
    {"get_food_item", "update_food_item", "delete_food_item",
     "consume_food_item"}

OfOthers(docs, user_id) == {d \in docs : d.userId # user_id}

\* C24: a get, update, delete or consume call by a user leaves every
\* document of another user's partition as it was and returns none of
\* them, and an update leaves the id and the userId of the item it
\* replaces as they were.
C24_OnlyOwnPartition ==
    [][last'.op \in ItemOps =>
          /\ OfOthers(store', last'.user) = OfOthers(store, last'.user)
          /\ \A d \in last'.data : d.userId = last'.user
          /\ last'.op = "update_food_item" =>
                 {<<d.id, d.userId>> : d \in store'}
                     = {<<d.id, d.userId>> : d \in store}]_vars

\* a user has called one of the four on an item of another user
C24_Witness ==
    /\ last.op \in ItemOps
    /\ \E d \in store : d.id = last.item /\ d.userId # last.user
    /\ \E d \in store : d.userId = last.user /\ "expirationdate" \in DOMAIN d

\* C27: after update_food_item has replaced an item with a new
\* expiration_date, the stored item's expirationDate is the supplied value
\* in its stored form; likewise purchase_date and purchaseDate.
C27_UpdateWritesDateFields ==
    last.op = "update_food_item" =>
        \A d \in ReadItem(store, last.item, last.user) :
            /\ "expiration_date" \in DOMAIN last.arg =>
                   d.expirationDate = isoformat(last.arg.expiration_date)
            /\ "purchase_date" \in DOMAIN last.arg =>
                   d.purchaseDate = isoformat(last.arg.purchase_date)

(***************************************************************************)
(* Claims about calls that overlap, checked under SpecRace and SpecConsume *)
(***************************************************************************)
\* C25: the store holds at most one user document per email, and a
\* register call for an email that is in the store when the call queries
\* it is answered 400.
C25_OneDocumentPerEmail ==
    \A d \in store, e \in store : d.email = e.email => d = e

\* C28: whenever no consume call is under way, the item is gone exactly
\* when the quantities consumed add up to its original quantity or more,
\* and otherwise it holds the original quantity less the sum, above zero.
C28_ConsumedAddsUp ==
    pending = {} =>
        /\ store = {} <=> last.total >= OriginalQuantity
        /\ \A d \in store :
               /\ d.quantity = OriginalQuantity - last.total
               /\ d.quantity > 0

(***************************************************************************)
(* Claims about the household endpoints, checked under SpecHouse           *)
(***************************************************************************)
\* C26: every user id is in the members list of at most one household.
C26_AtMostOneHousehold ==
    \A u \in Ids :
        Cardinality({h \in Households(store) : u \in Members(h)}) <= 1

StoredHashes == {d.password : d \in UserDocs(store)}

\* C30: no response body of register, login, refresh, /auth/me,
\* get_user_profile, update_user_profile, update_user_preferences or
\* get_household_members carries the stored password hash of any user.
C30_NoHashInBody ==
    last.body \cap StoredHashes = {}

\* a login was answered with the user's data while hashes are stored
C30_Witness ==
    /\ last.op = "login"
    /\ "Login successful" \in last.body
    /\ "ann@x.com" \in last.body
    /\ StoredHashes # {}

====
